---- MODULE Spec2Model ----
(***************************************************************************)
(* A model of backend/scraper.js (src/unnamed/part_001, lines 1-475): the  *)
(* shared Puppeteer browser with its idle timer (getBrowser, closeBrowser, *)
(* resetIdleTimeout, the 'disconnected' handler), the sliding-window rate  *)
(* limiter (waitForRateLimit) and the exported functions: searchPart with  *)
(* its two URL strategies and extractPartDetails, checkCompatibility and   *)
(* getTroubleshootingInfo.                                                 *)
(*                                                                         *)
(* JavaScript runs each handler to its next await without interruption,    *)
(* so every action below is one such run: from a call or a resumption to   *)
(* the next await or return.                                               *)
(***************************************************************************)
EXTENDS Integers, Sequences, FiniteSets, TLC

\* ------------------------------------------------------------------ bounds
MaxCallers == 2     \* concurrent tasks that call getBrowser
MaxBrowsers == 2    \* browser processes launched in one run
MaxClosers == 1     \* closeBrowser calls in flight at once
MaxTimers == 3      \* distinct setTimeout handles
MaxTime == 5        \* the clock stops here
MaxOpen == 2        \* searchPart is not called again with this many contexts leaked

\* The rate limiter's constants, scaled down: the source has RATE_LIMIT = 60
\* requests per RATE_WINDOW_MS = 60 * 1000 ms (part_001:89-90). One unit of `now`
\* is one tick of the model's clock.
RATE_LIMIT == 2
RATE_WINDOW_MS == 2

\* extractPartDetails, scaled down: the source cuts the description at 500
\* characters and the lists of steps, videos and symptoms at 10, 3 and 10
\* elements (part_001:370-375).
DescriptionCap == 2
StepsCap == 2
VideosCap == 1
SymptomsCap == 2
MaxText == 3        \* the longest description text on a page
MaxElems == 3       \* the most elements a selector matches on a page

\* `null`, for browserInstance and idleTimeout (browsers and timers count from 1)
NULL == 0

Callers == 1..MaxCallers
Browsers == 1..MaxBrowsers
Closers == 1..MaxClosers
TimerIds == 1..MaxTimers

VARIABLES
    \* ---- the browser session (part_001:11-12) and its environment
    browserInstance,  \* let browserInstance: a browser, or NULL
    idleTimeout,      \* let idleTimeout: a timer handle, or NULL
    timers,           \* the setTimeout handles armed and neither fired nor cleared
    alive,            \* per browser: "none" (not launched), "alive", "closed"
                      \* (through close()), "crashed" (on its own)
    gpc,              \* per caller of getBrowser: "idle", or "launching" while
                      \* it awaits puppeteer.launch()
    why,              \* per launching caller, why it found no browser: "first"
                      \* (none launched yet), "crash" (the latest one
                      \* disconnected on its own), "other"
    returned,         \* the handle the last handler run returned from getBrowser
    firstHandles,     \* the handles returned to the "first" callers
    reusedClosing,    \* the browsers getBrowser returned while a closeBrowser
                      \* call was awaiting their close()
    closer,           \* per closeBrowser call in flight: its reason and its browser
    emitted,          \* 'closed' events the last handler run emitted on browserEvents
    last,             \* the handler run that led to this state
    \* ---- the rate limiter (part_001:88-115)
    now,              \* Date.now()
    requestTimestamps,\* const requestTimestamps = []
    rpc,              \* per caller of waitForRateLimit: "idle", "waiting", "done"
    wake,             \* per waiting caller: when its setTimeout is due
    oldest,           \* per waiting caller: the oldestTimestamp it waits for
    recent,           \* the times at which calls returned, within the last
                      \* RATE_WINDOW_MS
    \* ---- one call of an exported function after another (part_001:118-475)
    op,               \* the exported function called: searchPart,
                      \* checkCompatibility or getTroubleshootingInfo
    partNumber,       \* its partNumber argument
    spc,              \* where the call is: the await it is suspended at
    primary,          \* findPartSelectUrlViaSearch: not called, running, its result
    fallback,         \* findPartSelectUrlViaDDG: not called, running, its result
    pend,             \* what the primary's try or catch block returns, held while
                      \* its finally block runs
    page,             \* what the primary strategy read off the page it landed on
    html,             \* what the fallback strategy read off DuckDuckGo's HTML
    result,           \* what searchPart returned
    open,             \* browsing contexts created and not closed
    admits,           \* waitForRateLimit calls completed within the exported call
    cadmits,          \* those completed within the strategy or fetch that runs
    fetched,          \* what the exported call's own fetch read: the words of
                      \* the model page, the tips of the help page
    out,              \* what checkCompatibility or getTroubleshootingInfo returned
    count,            \* within the exported call: the navigations of the primary
                      \* strategy, the requests of the fallback strategy, the
                      \* navigations of fetchPageWithPuppeteer, the searchPart calls
    \* ---- extractPartDetails on one page after another (part_001:326-378)
    doc,              \* the page loaded
    details,          \* the record extractPartDetails returned for it
    \* ---- the fetches that hold the shared browser (part_001:122-134, 146-207)
    ctx               \* per caller: the browser on which it has a browsing
                      \* context open, or NULL

bvars == <<browserInstance, idleTimeout, timers, alive, gpc, why, returned,
           firstHandles, reusedClosing, closer, emitted, last>>

rvars == <<now, requestTimestamps, rpc, wake, oldest, recent>>

svars == <<op, partNumber, spc, primary, fallback, pend, page, html, result, open,
           admits, cadmits, fetched, out, count>>

evars == <<doc, details>>

fvars == <<ctx>>

vars == <<bvars, rvars, svars, evars, fvars>>

\* What the actions of one part leave alone.
notB == <<rvars, svars, evars, fvars>>
notR == <<bvars, svars, evars, fvars>>
notS == <<bvars, rvars, evars, fvars>>
notE == <<bvars, rvars, svars, fvars>>
notF == <<bvars, rvars, svars, evars>>

NoCloser == [reason |-> "none", target |-> NULL]

\* ------------------------------------------------------------ resetIdleTimeout
\* A handle setTimeout has not handed out: not pending, and not the one held.
FreshTimers(it, ts) == {t \in TimerIds : t \notin ts /\ t # it}

\* Mutant of ClearIdle: the held handle is forgotten without clearTimeout.
ClearIdle_Leak(it, ts) == ts

\* clearTimeout(idleTimeout) when idleTimeout is set: clearing a fired handle
\* changes nothing.
ClearIdle(it, ts) == IF it # NULL THEN ts \ {it} ELSE ts

\* Mutant of resetIdleTimeout: a pending timer is left to run, none is armed.
resetIdleTimeout_KeepsPending(it, ts) ==
    LET free == FreshTimers(it, ts)
        new == CHOOSE t \in free : \A u \in free : t <= u
    IN  IF it \in ts THEN [idleTimeout |-> it, timers |-> ts]
        ELSE [idleTimeout |-> new, timers |-> ClearIdle(it, ts) \cup {new}]

\* resetIdleTimeout(): clear the held handle, arm a new one and hold it. The
\* timer armed is due IDLE_TIMEOUT_MS after this call (line 24).
resetIdleTimeout(it, ts) ==
    LET free == FreshTimers(it, ts)
        new == CHOOSE t \in free : \A u \in free : t <= u
    IN  [idleTimeout |-> new, timers |-> ClearIdle(it, ts) \cup {new}]

\* ------------------------------------------------------------------ states
Closing(b) == \E k \in Closers : closer[k].reason # "none" /\ closer[k].target = b
Launching == \E c \in Callers : gpc[c] = "launching"
Ready == /\ browserInstance # NULL
         /\ alive[browserInstance] = "alive"
         /\ ~Closing(browserInstance)
Absent == browserInstance = NULL /\ ~Launching
LiveBrowsers == {b \in Browsers : alive[b] = "alive"}
\* Launches that have resolved: the next browser launched is Gen + 1.
Gen == Cardinality({b \in Browsers : alive[b] # "none"})

BInit ==
    /\ browserInstance = NULL
    /\ idleTimeout = NULL
    /\ timers = {}
    /\ alive = [b \in Browsers |-> "none"]
    /\ gpc = [c \in Callers |-> "idle"]
    /\ why = [c \in Callers |-> "-"]
    /\ returned = NULL
    /\ firstHandles = {}
    /\ reusedClosing = {}
    /\ closer = [k \in Closers |-> NoCloser]
    /\ emitted = 0
    /\ last = "init"

\* ------------------------------------------------------------------ getBrowser
\* Why a call finds browserInstance unset.
WhyAbsent ==
    IF Gen = 0 THEN "first"
    ELSE IF alive[Gen] = "crashed" THEN "crash"
    ELSE "other"

\* getBrowser() with browserInstance unset: puppeteer.launch() is called and
\* awaited.
GetBrowserLaunch(c) ==
    /\ gpc[c] = "idle"
    /\ browserInstance = NULL
    /\ Gen + Cardinality({d \in Callers : gpc[d] = "launching"}) < MaxBrowsers
    /\ gpc' = [gpc EXCEPT ![c] = "launching"]
    /\ why' = [why EXCEPT ![c] = WhyAbsent]
    /\ returned' = NULL
    /\ last' = "launch"
    /\ emitted' = 0
    /\ UNCHANGED <<browserInstance, idleTimeout, timers, alive, firstHandles,
                   reusedClosing, closer>>
    /\ UNCHANGED notB

\* getBrowser() with browserInstance set: the timer is reset and the tracked
\* browser returned, in one run.
GetBrowserReuse(c) ==
    /\ gpc[c] = "idle"
    /\ browserInstance # NULL
    /\ FreshTimers(idleTimeout, timers) # {}
    /\ LET r == resetIdleTimeout(idleTimeout, timers)
       IN  /\ idleTimeout' = r.idleTimeout
           /\ timers' = r.timers
    /\ returned' = browserInstance
    /\ reusedClosing' = IF Closing(browserInstance)
                        THEN reusedClosing \cup {browserInstance} ELSE reusedClosing
    /\ last' = "reuse"
    /\ emitted' = 0
    /\ UNCHANGED <<browserInstance, alive, gpc, why, firstHandles, closer>>
    /\ UNCHANGED notB

\* The launch a caller awaits resolves: the new browser is assigned, its
\* 'disconnected' handler registered, the timer reset and the handle returned.
LaunchResolved(c) ==
    /\ gpc[c] = "launching"
    /\ FreshTimers(idleTimeout, timers) # {}
    /\ LET b == Gen + 1
           r == resetIdleTimeout(idleTimeout, timers)
       IN  /\ alive' = [alive EXCEPT ![b] = "alive"]
           /\ browserInstance' = b
           /\ idleTimeout' = r.idleTimeout
           /\ timers' = r.timers
           /\ returned' = b
           /\ firstHandles' = IF why[c] = "first" THEN firstHandles \cup {b}
                              ELSE firstHandles
    /\ gpc' = [gpc EXCEPT ![c] = "idle"]
    /\ why' = [why EXCEPT ![c] = "-"]
    /\ last' = IF why[c] = "crash" THEN "launched_after_crash" ELSE "launched"
    /\ emitted' = 0
    /\ UNCHANGED <<reusedClosing, closer>>
    /\ UNCHANGED notB

\* The launch a caller awaits is rejected: getBrowser throws at line 30 and
\* nothing is assigned.
LaunchRejected(c) ==
    /\ gpc[c] = "launching"
    /\ gpc' = [gpc EXCEPT ![c] = "idle"]
    /\ why' = [why EXCEPT ![c] = "-"]
    /\ returned' = NULL
    /\ last' = "launch_rejected"
    /\ emitted' = 0
    /\ UNCHANGED <<browserInstance, idleTimeout, timers, alive, firstHandles,
                   reusedClosing, closer>>
    /\ UNCHANGED notB

\* ------------------------------------------------------------------ closeBrowser
FreeCloser(cl) == CHOOSE k \in Closers : cl[k].reason = "none"

\* The first run of closeBrowser(reason): the timer is cleared, and with a
\* tracked browser its close() is called and awaited.
closeBrowserCall(reason, bi, it, ts, cl) ==
    [idleTimeout |-> IF it # NULL THEN NULL ELSE it,
     timers |-> ClearIdle(it, ts),
     closer |-> IF bi # NULL
                THEN [cl EXCEPT ![FreeCloser(cl)] = [reason |-> reason, target |-> bi]]
                ELSE cl]

\* closeBrowser() as the SIGINT and SIGTERM handlers call it (reason 'manual').
CloseBrowserManual ==
    /\ browserInstance # NULL => \E k \in Closers : closer[k].reason = "none"
    /\ LET r == closeBrowserCall("manual", browserInstance, idleTimeout, timers, closer)
       IN  /\ idleTimeout' = r.idleTimeout
           /\ timers' = r.timers
           /\ closer' = r.closer
    /\ last' = "close_manual"
    /\ emitted' = 0
    /\ returned' = NULL
    /\ UNCHANGED <<browserInstance, alive, gpc, why, firstHandles, reusedClosing>>
    /\ UNCHANGED notB

\* The idle timer fires: with a tracked browser, closeBrowser('inactivity').
IdleExpire(t) ==
    /\ t \in timers
    /\ browserInstance # NULL => \E k \in Closers : closer[k].reason = "none"
    /\ IF browserInstance # NULL
       THEN LET r == closeBrowserCall("inactivity", browserInstance, idleTimeout,
                                      timers \ {t}, closer)
            IN  /\ idleTimeout' = r.idleTimeout
                /\ timers' = r.timers
                /\ closer' = r.closer
       ELSE /\ timers' = timers \ {t}
            /\ UNCHANGED <<idleTimeout, closer>>
    /\ last' = IF Ready THEN "expire_ready" ELSE "expire"
    /\ emitted' = 0
    /\ returned' = NULL
    /\ UNCHANGED <<browserInstance, alive, gpc, why, firstHandles, reusedClosing>>
    /\ UNCHANGED notB

\* Mutant of onDisconnected: the handler clears the timer but keeps the browser.
onDisconnected_KeepsBrowser(bi, it, ts) ==
    [browserInstance |-> bi,
     idleTimeout |-> IF it # NULL THEN NULL ELSE it,
     timers |-> IF it # NULL THEN ts \ {it} ELSE ts]

\* Mutant of onDisconnected: the handler drops the browser but leaves the timer.
onDisconnected_KeepsTimer(bi, it, ts) ==
    [browserInstance |-> NULL, idleTimeout |-> it, timers |-> ts]

\* The 'disconnected' handler (part_001:36-43), as a function of the tracked
\* browser and the timer: it does not look at which browser disconnected.
onDisconnected(bi, it, ts) ==
    [browserInstance |-> NULL,
     idleTimeout |-> IF it # NULL THEN NULL ELSE it,
     timers |-> ClearIdle(it, ts)]

\* Mutant of Emits: no reason emits the event.
Emits_Never(reason) == 0

\* Mutant of Emits: every reason emits the event.
Emits_Always(reason) == 1

\* The 'closed' events closeBrowser emits for `reason` once close() has resolved.
Emits(reason) == IF reason = "inactivity" THEN 1 ELSE 0

\* close() resolves for closer k: the process is gone (Puppeteer emits
\* 'disconnected' when the browser closes, unless it already has), then
\* closeBrowser continues: browserInstance = null and the event for 'inactivity'.
CloseResolved(k) ==
    /\ closer[k].reason # "none"
    /\ LET b == closer[k].target
           h == IF alive[b] = "alive"
                THEN onDisconnected(browserInstance, idleTimeout, timers)
                ELSE [browserInstance |-> browserInstance,
                      idleTimeout |-> idleTimeout, timers |-> timers]
       IN  /\ alive' = [alive EXCEPT ![b] = IF @ = "alive" THEN "closed" ELSE @]
           /\ browserInstance' = NULL
           /\ idleTimeout' = h.idleTimeout
           /\ timers' = h.timers
           /\ emitted' = Emits(closer[k].reason)
           /\ last' = IF closer[k].reason = "inactivity"
                      THEN "closed_inactivity" ELSE "closed_manual"
    /\ closer' = [closer EXCEPT ![k] = NoCloser]
    /\ returned' = NULL
    /\ UNCHANGED <<gpc, why, firstHandles, reusedClosing>>
    /\ UNCHANGED notB

\* A browser process dies or loses its connection on its own: 'disconnected'.
Disconnected(b) ==
    /\ alive[b] = "alive"
    /\ LET h == onDisconnected(browserInstance, idleTimeout, timers)
       IN  /\ browserInstance' = h.browserInstance
           /\ idleTimeout' = h.idleTimeout
           /\ timers' = h.timers
    /\ alive' = [alive EXCEPT ![b] = "crashed"]
    /\ last' = IF Ready /\ browserInstance = b THEN "disconnected_ready"
               ELSE "disconnected"
    /\ emitted' = 0
    /\ returned' = NULL
    /\ UNCHANGED <<gpc, why, firstHandles, reusedClosing, closer>>
    /\ UNCHANGED notB

\* ------------------------------------------------------------ waitForRateLimit
RInit ==
    /\ now = 0
    /\ requestTimestamps = <<>>
    /\ rpc = [c \in Callers |-> "idle"]
    /\ wake = [c \in Callers |-> 0]
    /\ oldest = [c \in Callers |-> 0]
    /\ recent = <<>>

\* Mutant of Shift: the last element is dropped.
Shift_Last(ts) == IF ts = <<>> THEN ts ELSE SubSeq(ts, 1, Len(ts) - 1)

\* Array.prototype.shift(): drops the first element, if there is one.
Shift(ts) == IF ts = <<>> THEN ts ELSE Tail(ts)

\* The while loop of lines 97-99: drop the leading timestamps older than the
\* window.
RECURSIVE Evict(_, _)
Evict(ts, t) ==
    IF Len(ts) > 0 /\ Head(ts) < t - RATE_WINDOW_MS THEN Evict(Shift(ts), t) ELSE ts

\* The returns still within the trailing window (t - RATE_WINDOW_MS, t].
Trailing(rs, t) == SelectSeq(rs, LAMBDA x : x > t - RATE_WINDOW_MS)

\* waitForRateLimit() up to its await, or to its return when it does not wait.
\* A call that would wait beyond MaxTime is not made.
WaitForRateLimitCall(c) ==
    /\ rpc[c] # "waiting"
    /\ LET kept == Evict(requestTimestamps, now)
       IN  Len(kept) >= RATE_LIMIT => kept[1] + RATE_WINDOW_MS <= MaxTime
    /\ LET kept == Evict(requestTimestamps, now)
       IN  IF Len(kept) >= RATE_LIMIT /\ kept[1] + RATE_WINDOW_MS - now > 0
           THEN /\ requestTimestamps' = kept
                /\ rpc' = [rpc EXCEPT ![c] = "waiting"]
                /\ wake' = [wake EXCEPT ![c] = kept[1] + RATE_WINDOW_MS]
                /\ oldest' = [oldest EXCEPT ![c] = kept[1]]
                /\ UNCHANGED recent
           ELSE /\ requestTimestamps' =
                       Append(IF Len(kept) >= RATE_LIMIT THEN Shift(kept) ELSE kept, now)
                /\ rpc' = [rpc EXCEPT ![c] = "done"]
                /\ recent' = Append(recent, now)
                /\ UNCHANGED <<wake, oldest>>
    /\ UNCHANGED now
    /\ UNCHANGED notR

\* Mutant of WaitForRateLimitResume: the caller returns without recording its
\* request.
WaitForRateLimitResume_NoRecord(c) ==
    /\ rpc[c] = "waiting"
    /\ now >= wake[c]
    /\ requestTimestamps' = Shift(requestTimestamps)
    /\ rpc' = [rpc EXCEPT ![c] = "done"]
    /\ recent' = Append(recent, now)
    /\ UNCHANGED <<now, wake, oldest>>
    /\ UNCHANGED notR

\* The setTimeout of line 107 fires, no earlier than it is due: the caller
\* shifts one timestamp, records its own and returns.
WaitForRateLimitResume(c) ==
    /\ rpc[c] = "waiting"
    /\ now >= wake[c]
    /\ requestTimestamps' = Append(Shift(requestTimestamps), now)
    /\ rpc' = [rpc EXCEPT ![c] = "done"]
    /\ recent' = Append(recent, now)
    /\ UNCHANGED <<now, wake, oldest>>
    /\ UNCHANGED notR

\* Time passes.
Tick ==
    /\ now < MaxTime
    /\ now' = now + 1
    /\ recent' = Trailing(recent, now + 1)
    /\ UNCHANGED <<requestTimestamps, rpc, wake, oldest>>
    /\ UNCHANGED notR

\* ------------------------------------------------------------------ searchPart
\* A ResolutionResult {url, method}, null, or the state of a strategy's call.
Rr(res, url, method) == [res |-> res, url |-> url, method |-> method]
Null == Rr("null", "", "")
NotCalled == Rr("notcalled", "", "")
Running == Rr("running", "", "")
Threw == Rr("threw", "", "")
NonePending == Rr("none", "", "")

\* No page landed on, no HTML received.
NoPage == [none |-> TRUE]

\* The part numbers the exported functions are called with.
PartNumbers == {"PS1", "ps1"}

\* What searchPart returns: the part details with sourceMethod and url attached
\* (lines 310-315), or { error }. An error string is the sequence of the
\* pieces its template literal is made of; a record without `error` has <<>>.
NoResult == [kind |-> "none", error |-> <<>>, partNumber |-> "", sourceMethod |-> "",
             url |-> ""]
ErrorRecord(e) == [kind |-> "error", error |-> e, partNumber |-> "",
                   sourceMethod |-> "", url |-> ""]

\* Line 322: { error: `Failed to search for part: ${error.message}` }.
FailedError == ErrorRecord(<<"Failed to search for part: ", "error.message">>)

\* Mutant of NoResultsError: the message of the catch block, without the part
\* number.
NoResultsError_Generic(pn) == FailedError

\* Line 319: { error: `No results found for part number: ${partNumber}` }.
NoResultsError(pn) == ErrorRecord(<<"No results found for part number: ", pn>>)

\* Mutant of PartDetails: the record has the URL but not the strategy's method.
PartDetails_NoMethod(pn, r) ==
    [kind |-> "part", error |-> <<>>, partNumber |-> pn, sourceMethod |-> "",
     url |-> r.url]

\* Lines 310-312: extractPartDetails($, partNumber) with sourceMethod and url
\* set from the ResolutionResult r.
PartDetails(pn, r) ==
    [kind |-> "part", error |-> <<>>, partNumber |-> pn, sourceMethod |-> r.method,
     url |-> r.url]

\* ---------------------------------- checkCompatibility, getTroubleshootingInfo
\* The words a page's text may hold, and String.prototype.toLowerCase on them.
Words == {"PS1", "w2"}
PageTexts == SUBSET Words

ToLowerCase(s) ==
    CASE s = "PS1" -> "ps1"
      [] s = "W2" -> "w2"
      [] OTHER -> s

\* What an exported call's own fetch reads off its page: nothing yet; the text
\* of the model page; whether the selectors of the help page yield tips longer
\* than 20 characters.
NoContent == [text |-> {}, tips |-> "none"]
ModelPages == {[text |-> t, tips |-> "none"] : t \in PageTexts}
HelpPages == {[text |-> {}, tips |-> x] : x \in {"none", "some"}}

\* What checkCompatibility and getTroubleshootingInfo return.
Out(kind, isCompatible, partInfo, error, message, tips, suggestedParts) ==
    [kind |-> kind, isCompatible |-> isCompatible, partInfo |-> partInfo,
     error |-> error, message |-> message, tips |-> tips,
     suggestedParts |-> suggestedParts]

NoOut == Out("none", FALSE, NoResult, <<>>, "", "", "")

\* Mutant of IsCompatible: the part number is compared as it was given.
IsCompatible_CaseSensitive(text, pn) == pn \in {ToLowerCase(w) : w \in text}

\* Lines 389-393: $.text().toLowerCase().includes(partNumber.toLowerCase()).
IsCompatible(text, pn) == ToLowerCase(pn) \in {ToLowerCase(w) : w \in text}

\* Line 403: partInfo.error ? null : partInfo.
PartInfo(r) == IF r.error # <<>> THEN NoResult ELSE r

\* Lines 398-407: what checkCompatibility returns from its try block.
CompatResult(text, pn, r) ==
    Out("compatibility", IsCompatible(text, pn), PartInfo(r), <<>>,
        IF IsCompatible(text, pn)
        THEN "Part <partNumber> appears to be compatible with model <modelNumber>."
        ELSE "Could not confirm compatibility between <partNumber> and <modelNumber>. Check PartSelect.com directly.",
        "", "")

\* Lines 409-414: what checkCompatibility returns from its catch block.
CompatError ==
    Out("error", FALSE, NoResult,
        <<"Failed to check compatibility: ", "error.message">>,
        "Unable to verify compatibility. Please check PartSelect.com directly.",
        "", "")

\* Mutant of FetchFailedAdvice: the error shape of checkCompatibility instead.
FetchFailedAdvice_Error == CompatError

\* Lines 429-435 (and 467-473): what getTroubleshootingInfo returns when the
\* fetch of the help page throws.
FetchFailedAdvice ==
    Out("advice", FALSE, NoResult, <<>>,
        "Could not fetch specific troubleshooting data. Will provide general guidance.",
        "empty", "empty")

\* Lines 457-465: what getTroubleshootingInfo returns for the page it fetched.
Advice(h) ==
    Out("advice", FALSE, NoResult, <<>>,
        IF h.tips = "some"
        THEN "Found troubleshooting information for <appliance> <symptom>."
        ELSE "Limited troubleshooting info available. Common causes and solutions will be provided.",
        IF h.tips = "some" THEN "some" ELSE "empty", "any")

ZeroCount == [primary |-> 0, fallback |-> 0, fetch |-> 0, searchPart |-> 0]

SInit ==
    /\ spc = "idle"
    /\ primary = NotCalled
    /\ fallback = NotCalled
    /\ pend = NonePending
    /\ page = NoPage
    /\ html = NoPage
    /\ result = NoResult
    /\ open = 0
    /\ admits = 0
    /\ cadmits = 0
    /\ op = "none"
    /\ partNumber = ""
    /\ fetched = NoContent
    /\ out = NoOut
    /\ count = ZeroCount

\* What the primary strategy reads off the page it landed on: whether the final
\* URL has '.htm' and the part number, whether the title signals an error,
\* whether the first h1 has the part number, whether some '.htm' link has it.
Pages == [urlHit : BOOLEAN, titleErr : BOOLEAN, h1Hit : BOOLEAN, linkHit : BOOLEAN]

\* Lines 160-201 of findPartSelectUrlViaSearch: the checks in their order.
PrimaryResult(p) ==
    IF p.urlHit THEN Rr("found", "finalUrl", "ps-search")
    ELSE IF p.titleErr THEN Null
    ELSE IF p.h1Hit THEN Rr("found", "finalUrl", "ps-search")
    ELSE IF p.linkHit THEN Rr("found", "partUrl", "ps-search")
    ELSE Null

\* What the fallback strategy reads off DuckDuckGo's HTML: whether a uddg=
\* parameter with the part number is there and what decodeURIComponent makes of
\* it ("throws", "site": has 'partselect.com', "other"), whether the direct
\* pattern matches, whether any partselect.com .htm URL is there (which every
\* match of the direct pattern is).
Htmls == {h \in [enc : BOOLEAN, decoded : {"throws", "site", "other"},
                 direct : BOOLEAN, any : BOOLEAN] : h.direct => h.any}

\* Lines 241-278 of findPartSelectUrlViaDDG; an exception ends in the catch of
\* line 279, which returns null.
DdgResult(h) ==
    IF h.enc /\ h.decoded = "throws" THEN Null
    ELSE IF h.enc /\ h.decoded = "site" THEN Rr("found", "decodedUrl", "ddg")
    ELSE IF h.direct THEN Rr("found", "directUrl", "ddg")
    ELSE IF h.any THEN Rr("found", "firstUrl", "ddg")
    ELSE Null

\* Mutant of NeedsFallback: the fallback runs whatever the primary returned.
NeedsFallback_Always(r) == TRUE

\* Line 296, if (!result): the fallback runs when the primary returned null.
NeedsFallback(r) == r.res = "null"

\* The ResolutionResult searchPart goes on with (line 301).
Resolution == IF primary.res = "found" THEN primary ELSE fallback

\* Whether searchPart is running or has run in the exported call: the fetch
\* before it is the one of checkCompatibility or getTroubleshootingInfo.
InSearchPart == primary.res # "notcalled"

\* Where the call goes on once searchPart has returned: in checkCompatibility
\* (line 398), or nowhere.
AfterSearchPart == IF op = "checkCompatibility" THEN "cc_return" ELSE "done"

\* Mutant of Caught: searchPart has no catch block, the exception leaves it.
Caught_Rethrows ==
    /\ result' = [NoResult EXCEPT !.kind = "threw"]
    /\ spc' = AfterSearchPart
    /\ UNCHANGED out

\* An exception reaches the catch of searchPart (lines 320-323).
Caught ==
    /\ result' = FailedError
    /\ spc' = AfterSearchPart
    /\ UNCHANGED out

\* fetchPageWithPuppeteer throws: into the catch of searchPart, of
\* checkCompatibility (line 408) or of getTroubleshootingInfo (line 427).
FetchThrew ==
    IF InSearchPart THEN Caught
    ELSE /\ out' = IF op = "checkCompatibility" THEN CompatError ELSE FetchFailedAdvice
         /\ spc' = "done"
         /\ UNCHANGED result

\* Mutant of Admit: the admission is made a second time.
Admit_Twice(n) == n + 2

\* Mutant of Admit: the call goes on without the admission.
Admit_Skipped(n) == n

\* One more waitForRateLimit call has returned.
Admit(n) == n + 1

\* An exported function is called: nothing of the call before it is left.
Called(name, pn) ==
    /\ spc \in {"idle", "done"}
    /\ open < MaxOpen
    /\ op' = name
    /\ partNumber' = pn
    /\ fallback' = NotCalled
    /\ pend' = NonePending
    /\ page' = NoPage
    /\ html' = NoPage
    /\ fetched' = NoContent
    /\ result' = NoResult
    /\ out' = NoOut
    /\ count' = [ZeroCount EXCEPT !.searchPart = IF name = "searchPart" THEN 1 ELSE 0]
    /\ admits' = 0
    /\ cadmits' = 0
    /\ UNCHANGED open

\* searchPart(partNumber) is called: it calls findPartSelectUrlViaSearch, which
\* awaits waitForRateLimit.
SearchPart(pn) ==
    /\ Called("searchPart", pn)
    /\ spc' = "ps_admit"
    /\ primary' = Running
    /\ UNCHANGED notS

\* checkCompatibility(partNumber, modelNumber) is called: it calls
\* fetchPageWithPuppeteer(modelUrl), which awaits waitForRateLimit.
CheckCompatibility(pn) ==
    /\ Called("checkCompatibility", pn)
    /\ spc' = "fp_admit"
    /\ primary' = NotCalled
    /\ UNCHANGED notS

\* getTroubleshootingInfo(appliance, symptom) is called: it calls
\* fetchPageWithPuppeteer(searchUrl), which awaits waitForRateLimit.
GetTroubleshootingInfo ==
    /\ Called("getTroubleshootingInfo", "")
    /\ spc' = "fp_admit"
    /\ primary' = NotCalled
    /\ UNCHANGED notS

\* waitForRateLimit returns to the primary strategy, which awaits getBrowser.
PsAdmitted ==
    /\ spc = "ps_admit"
    /\ admits' = Admit(admits)
    /\ cadmits' = Admit(cadmits)
    /\ spc' = "ps_browser"
    /\ UNCHANGED <<page, html, primary, fallback, pend, result, open>>
    /\ UNCHANGED <<op, partNumber, fetched, out>>
    /\ UNCHANGED count
    /\ UNCHANGED notS

\* getBrowser returns or throws (lines 146): outside the try block, so an
\* exception leaves the strategy and reaches searchPart's catch.
PsGetBrowser(ok) ==
    /\ spc = "ps_browser"
    /\ IF ok
       THEN /\ spc' = "ps_context"
            /\ UNCHANGED <<primary, result, out>>
       ELSE /\ primary' = Threw
            /\ Caught
    /\ UNCHANGED <<page, html, fallback, pend, open, admits>>
    /\ UNCHANGED <<cadmits, op, partNumber, fetched>>
    /\ UNCHANGED count
    /\ UNCHANGED notS

\* browser.createBrowserContext() returns or throws (line 148).
PsCreateContext(ok) ==
    /\ spc = "ps_context"
    /\ IF ok
       THEN /\ spc' = "ps_page"
            /\ open' = open + 1
            /\ UNCHANGED <<primary, result, out>>
       ELSE /\ primary' = Threw
            /\ Caught
            /\ UNCHANGED open
    /\ UNCHANGED <<page, html, fallback, pend, admits>>
    /\ UNCHANGED <<cadmits, op, partNumber, fetched>>
    /\ UNCHANGED count
    /\ UNCHANGED notS

\* context.newPage() returns or throws (line 149), still outside the try block.
PsNewPage(ok) ==
    /\ spc = "ps_page"
    /\ IF ok
       THEN /\ spc' = "ps_goto"
            /\ UNCHANGED <<primary, result, out>>
       ELSE /\ primary' = Threw
            /\ Caught
    /\ UNCHANGED <<page, html, fallback, pend, open, admits>>
    /\ UNCHANGED <<cadmits, op, partNumber, fetched>>
    /\ UNCHANGED count
    /\ UNCHANGED notS

\* The try block (lines 151-202): the navigation lands on a page and the checks
\* decide, or something throws and the catch block returns null; then the
\* finally block awaits context.close().
PsNavigated(threw, p) ==
    /\ spc = "ps_goto"
    /\ pend' = IF threw THEN Null ELSE PrimaryResult(p)
    /\ page' = IF threw THEN NoPage ELSE p
    /\ spc' = "ps_close"
    /\ UNCHANGED <<primary, fallback, html, result, open, admits>>
    /\ UNCHANGED <<cadmits, op, partNumber, fetched, out>>
    /\ count' = [count EXCEPT !.primary = @ + 1]
    /\ UNCHANGED notS

\* context.close() of the finally block (line 207) returns, and the strategy
\* returns what the try or catch block chose; or it throws, which replaces that
\* return. Back in searchPart: the fallback (line 298) or the fetch (line 306).
PsClosed(ok) ==
    /\ spc = "ps_close"
    /\ IF ok
       THEN /\ open' = open - 1
            /\ primary' = pend
            /\ IF NeedsFallback(pend)
               THEN /\ fallback' = Running
                    /\ spc' = "ddg_admit"
               ELSE /\ spc' = "fp_admit"
                    /\ UNCHANGED fallback
            /\ cadmits' = 0
            /\ UNCHANGED <<result, out>>
       ELSE /\ primary' = Threw
            /\ Caught
            /\ UNCHANGED <<open, fallback, cadmits>>
    /\ pend' = NonePending
    /\ UNCHANGED <<page, html, admits>>
    /\ UNCHANGED <<op, partNumber, fetched>>
    /\ UNCHANGED count
    /\ UNCHANGED notS

\* waitForRateLimit returns to the fallback strategy (line 221), which awaits
\* fetch(ddgUrl).
DdgAdmitted ==
    /\ spc = "ddg_admit"
    /\ admits' = Admit(admits)
    /\ cadmits' = Admit(cadmits)
    /\ spc' = "ddg_fetch"
    /\ UNCHANGED <<page, html, primary, fallback, pend, result, open>>
    /\ UNCHANGED <<op, partNumber, fetched, out>>
    /\ UNCHANGED count
    /\ UNCHANGED notS

\* The rest of findPartSelectUrlViaDDG (lines 222-282): fetch throws, or the
\* response is not ok, or its HTML is parsed. Back in searchPart: the fetch of
\* the part page, or the 'No results found' error (line 319).
DdgFetched(outcome, h) ==
    /\ spc = "ddg_fetch"
    /\ LET r == IF outcome = "html" THEN DdgResult(h) ELSE Null
       IN  /\ fallback' = r
           /\ html' = IF outcome = "html" THEN h ELSE NoPage
           /\ IF r.res = "found"
              THEN /\ spc' = "fp_admit"
                   /\ cadmits' = 0
                   /\ UNCHANGED result
              ELSE /\ result' = NoResultsError(partNumber)
                   /\ spc' = AfterSearchPart
                   /\ UNCHANGED cadmits
    /\ UNCHANGED <<primary, pend, page, open, admits>>
    /\ UNCHANGED <<op, partNumber, fetched, out>>
    /\ count' = [count EXCEPT !.fallback = @ + 1]
    /\ UNCHANGED notS

\* fetchPageWithPuppeteer(url): waitForRateLimit returns (line 119).
FpAdmitted ==
    /\ spc = "fp_admit"
    /\ admits' = Admit(admits)
    /\ cadmits' = Admit(cadmits)
    /\ spc' = "fp_browser"
    /\ UNCHANGED <<page, html, primary, fallback, pend, result, open>>
    /\ UNCHANGED <<op, partNumber, fetched, out>>
    /\ UNCHANGED count
    /\ UNCHANGED notS

\* getBrowser returns or throws (line 122).
FpGetBrowser(ok) ==
    /\ spc = "fp_browser"
    /\ IF ok
       THEN /\ spc' = "fp_context"
            /\ UNCHANGED <<result, out>>
       ELSE FetchThrew
    /\ UNCHANGED <<page, html, primary, fallback, pend, open, admits>>
    /\ UNCHANGED <<cadmits, op, partNumber, fetched>>
    /\ UNCHANGED count
    /\ UNCHANGED notS

\* browser.createBrowserContext() returns or throws (line 124).
FpCreateContext(ok) ==
    /\ spc = "fp_context"
    /\ IF ok
       THEN /\ spc' = "fp_page"
            /\ open' = open + 1
            /\ UNCHANGED <<result, out>>
       ELSE /\ FetchThrew
            /\ UNCHANGED open
    /\ UNCHANGED <<page, html, primary, fallback, pend, admits>>
    /\ UNCHANGED <<cadmits, op, partNumber, fetched>>
    /\ UNCHANGED count
    /\ UNCHANGED notS

\* context.newPage() returns or throws (line 125), outside the try block.
FpNewPage(ok) ==
    /\ spc = "fp_page"
    /\ IF ok
       THEN /\ spc' = "fp_goto"
            /\ UNCHANGED <<result, out>>
       ELSE FetchThrew
    /\ UNCHANGED <<page, html, primary, fallback, pend, open, admits>>
    /\ UNCHANGED <<cadmits, op, partNumber, fetched>>
    /\ UNCHANGED count
    /\ UNCHANGED notS

\* The pages a fetch of the exported call may receive: the model page of
\* checkCompatibility, the help page of getTroubleshootingInfo; the part page
\* of searchPart goes to extractPartDetails.
Contents ==
    IF InSearchPart THEN {NoContent}
    ELSE IF op = "checkCompatibility" THEN ModelPages
    ELSE HelpPages

\* The try block of fetchPageWithPuppeteer (lines 127-131) returns the HTML or
\* throws; then the finally block awaits context.close().
FpNavigated(threw, content) ==
    /\ spc = "fp_goto"
    /\ content \in Contents
    /\ pend' = IF threw THEN Threw ELSE Rr("html", "", "")
    /\ fetched' = IF threw \/ InSearchPart THEN fetched ELSE content
    /\ spc' = "fp_close"
    /\ UNCHANGED <<page, html, primary, fallback, result, open, admits>>
    /\ UNCHANGED <<cadmits, op, partNumber, out>>
    /\ count' = [count EXCEPT !.fetch = @ + 1]
    /\ UNCHANGED notS

\* context.close() (line 133) returns or throws. With the HTML, searchPart
\* extracts the details and attaches sourceMethod and url (lines 309-315);
\* checkCompatibility reads the page and calls searchPart (lines 386-396);
\* getTroubleshootingInfo returns its advice (lines 438-465).
FpClosed(ok) ==
    /\ spc = "fp_close"
    /\ IF ok /\ pend.res = "html"
       THEN IF InSearchPart
            THEN /\ result' = PartDetails(partNumber, Resolution)
                 /\ spc' = AfterSearchPart
                 /\ UNCHANGED <<primary, cadmits, out, count>>
            ELSE IF op = "checkCompatibility"
            THEN /\ primary' = Running
                 /\ spc' = "ps_admit"
                 /\ cadmits' = 0
                 /\ count' = [count EXCEPT !.searchPart = @ + 1]
                 /\ UNCHANGED <<result, out>>
            ELSE /\ out' = Advice(fetched)
                 /\ spc' = "done"
                 /\ UNCHANGED <<primary, cadmits, result, count>>
       ELSE /\ FetchThrew
            /\ UNCHANGED <<primary, cadmits, count>>
    /\ open' = IF ok THEN open - 1 ELSE open
    /\ pend' = NonePending
    /\ UNCHANGED <<page, html, fallback, admits>>
    /\ UNCHANGED <<op, partNumber, fetched>>
    /\ UNCHANGED notS

\* searchPart has returned to checkCompatibility, which returns (lines 398-407).
CcReturned ==
    /\ spc = "cc_return"
    /\ out' = CompatResult(fetched.text, partNumber, result)
    /\ spc' = "done"
    /\ UNCHANGED <<primary, fallback, pend, page, html, result, open, admits>>
    /\ UNCHANGED <<cadmits, op, partNumber, fetched>>
    /\ UNCHANGED count
    /\ UNCHANGED notS

\* ----------------------------------------------------------- extractPartDetails
\* What the selectors of extractPartDetails read off a part page. A text is ""
\* when nothing matches (cheerio's .text() of an empty selection); an attribute
\* is "undefined" when nothing matches or the element lacks it. The description
\* texts are kept as their lengths; a list holds, per matching element in
\* document order, its trimmed text or its href.
Texts == {"", "text"}
Attrs == {"undefined", "", "/img.png", "http://img.png"}
Lengths == 0..MaxText
SeqsUpTo(S) == UNION {[1..n -> S] : n \in 0..MaxElems}

\* The page on which no selector matches anything.
EmptyDoc ==
    [titleMain |-> "", h1 |-> "", price |-> "",
     pdDescription |-> 0, metaDescription |-> <<>>,
     availability |-> FALSE, partAvailability |-> FALSE,
     mainImage |-> "undefined", jsMainImage |-> "undefined", ogImage |-> "undefined",
     steps |-> <<>>, hrefs |-> <<>>, symptoms |-> <<>>, compatibilityNote |-> ""]

\* The pages extractPartDetails is applied to: the empty page with the elements
\* of one field filled in.
Docs ==
    {[EmptyDoc EXCEPT !.titleMain = a, !.h1 = b] : a \in Texts, b \in Texts}
    \cup {[EmptyDoc EXCEPT !.price = a, !.compatibilityNote = b] : a \in Texts, b \in Texts}
    \cup {[EmptyDoc EXCEPT !.pdDescription = n, !.metaDescription = m] :
              n \in Lengths, m \in {<<>>} \cup {<<k>> : k \in Lengths}}
    \cup {[EmptyDoc EXCEPT !.availability = a, !.partAvailability = b] :
              a \in BOOLEAN, b \in BOOLEAN}
    \cup {[EmptyDoc EXCEPT !.mainImage = a, !.jsMainImage = b, !.ogImage = c] :
              a \in Attrs, b \in {"undefined", "http://img.png"},
              c \in {"undefined", "http://img.png"}}
    \cup {[EmptyDoc EXCEPT !.steps = s] : s \in SeqsUpTo(Texts)}
    \cup {[EmptyDoc EXCEPT !.hrefs = s] : s \in SeqsUpTo({"undefined", "/video"})}
    \cup {[EmptyDoc EXCEPT !.symptoms = s] : s \in SeqsUpTo(Texts)}

\* JavaScript's a || b on strings and undefined.
Or(a, b) == IF a \in {"undefined", ""} THEN b ELSE a

Min(a, b) == IF a <= b THEN a ELSE b

\* The indices of the elements of s that the each() callback pushes, in
\* document order.
RECURSIVE Pushed(_, _, _)
Pushed(s, keep, i) ==
    IF i > Len(s) THEN <<>>
    ELSE IF s[i] \in keep THEN <<i>> \o Pushed(s, keep, i + 1)
    ELSE Pushed(s, keep, i + 1)

\* Mutant of Slice: the whole array.
Slice_All(s, n) == s

\* Array.prototype.slice(0, n).
Slice(s, n) == SubSeq(s, 1, Min(n, Len(s)))

\* Mutant of Substring: the whole string.
Substring_All(len, n) == len

\* String.prototype.substring(0, n), on the length of the string.
Substring(len, n) == Min(len, n)

\* Lines 329-330: the description's length.
Description(d) ==
    IF d.pdDescription > 0 THEN d.pdDescription
    ELSE IF d.metaDescription # <<>> /\ d.metaDescription[1] > 0 THEN d.metaDescription[1]
    ELSE 0

\* Lines 335-341: the image URL, made absolute.
ImageUrl(d) ==
    LET u == Or(d.mainImage, Or(d.jsMainImage, Or(d.ogImage, "")))
    IN  IF u # "" /\ u # "http://img.png" THEN "https://www.partselect.com/img.png"
        ELSE u

\* extractPartDetails($, partNumber) (lines 326-378). A list of the record
\* holds the indices of the elements it took.
extractPartDetails(d, pn) ==
    [partNumber |-> pn,
     title |-> Or(d.titleMain, d.h1),
     price |-> d.price,
     description |-> Substring(Description(d), DescriptionCap),
     inStock |-> d.availability \/ d.partAvailability,
     imageUrl |-> ImageUrl(d),
     installationSteps |-> Slice(Pushed(d.steps, {"text"}, 1), StepsCap),
     videos |-> Slice(Pushed(d.hrefs, {"/video"}, 1), VideosCap),
     symptoms |-> Slice(Pushed(d.symptoms, Texts, 1), SymptomsCap),
     compatibilityNote |-> d.compatibilityNote]

NoDoc == [none |-> TRUE]
NoDetails == [none |-> TRUE]

EInit ==
    /\ doc = NoDoc
    /\ details = NoDetails

\* cheerio.load(html) of a part page (line 309).
Load(d) ==
    /\ doc' = d
    /\ details' = NoDetails
    /\ UNCHANGED notE

\* extractPartDetails is applied to the page loaded (line 310).
Extract(pn) ==
    /\ doc # NoDoc
    /\ details = NoDetails
    /\ details' = extractPartDetails(doc, pn)
    /\ UNCHANGED doc
    /\ UNCHANGED notE

\* ------------------------------------------- a fetch holding the shared browser
FInit == ctx = [c \in Callers |-> NULL]

\* The caller whose getBrowser has just returned awaits
\* browser.createBrowserContext() (lines 124, 148), which resolves on a live
\* browser: the fetch now has its context open on it.
ContextCreated(c) ==
    /\ gpc[c] = "idle"
    /\ ctx[c] = NULL
    /\ returned # NULL
    /\ alive[returned] = "alive"
    /\ ctx' = [ctx EXCEPT ![c] = returned]
    /\ UNCHANGED notF

\* The finally block of the fetch: context.close() (lines 133, 207).
ContextClosed(c) ==
    /\ ctx[c] # NULL
    /\ ctx' = [ctx EXCEPT ![c] = NULL]
    /\ UNCHANGED notF

Init == BInit /\ RInit /\ SInit /\ EInit /\ FInit

Next ==
    \/ \E c \in Callers : GetBrowserLaunch(c)
    \/ \E c \in Callers : GetBrowserReuse(c)
    \/ \E c \in Callers : LaunchResolved(c)
    \/ \E c \in Callers : LaunchRejected(c)
    \/ CloseBrowserManual
    \/ \E t \in TimerIds : IdleExpire(t)
    \/ \E k \in Closers : CloseResolved(k)
    \/ \E b \in Browsers : Disconnected(b)

Spec == Init /\ [][Next]_vars

RateNext ==
    \/ \E c \in Callers : WaitForRateLimitCall(c)
    \/ \E c \in Callers : WaitForRateLimitResume(c)
    \/ Tick

RateSpec == Init /\ [][RateNext]_vars

\* Time passes, and a timer that is due fires.
FairRateSpec ==
    /\ RateSpec
    /\ WF_vars(Tick)
    /\ \A c \in Callers : WF_vars(WaitForRateLimitResume(c))

SearchNext ==
    \/ \E pn \in PartNumbers : SearchPart(pn)
    \/ \E pn \in PartNumbers : CheckCompatibility(pn)
    \/ GetTroubleshootingInfo
    \/ PsAdmitted
    \/ \E ok \in BOOLEAN : PsGetBrowser(ok)
    \/ \E ok \in BOOLEAN : PsCreateContext(ok)
    \/ \E ok \in BOOLEAN : PsNewPage(ok)
    \/ \E threw \in BOOLEAN, p \in Pages : PsNavigated(threw, p)
    \/ \E ok \in BOOLEAN : PsClosed(ok)
    \/ DdgAdmitted
    \/ \E outcome \in {"throws", "notok", "html"}, h \in Htmls : DdgFetched(outcome, h)
    \/ FpAdmitted
    \/ \E ok \in BOOLEAN : FpGetBrowser(ok)
    \/ \E ok \in BOOLEAN : FpCreateContext(ok)
    \/ \E ok \in BOOLEAN : FpNewPage(ok)
    \/ \E threw \in BOOLEAN, content \in ModelPages \cup HelpPages :
           FpNavigated(threw, content)
    \/ \E ok \in BOOLEAN : FpClosed(ok)
    \/ CcReturned

SearchSpec == Init /\ [][SearchNext]_vars

ExtractNext ==
    \/ \E d \in Docs : Load(d)
    \/ \E pn \in PartNumbers : Extract(pn)

ExtractSpec == Init /\ [][ExtractNext]_vars

\* The browser session with the fetches that use it.
FetchNext ==
    \/ Next
    \/ \E c \in Callers : ContextCreated(c)
    \/ \E c \in Callers : ContextClosed(c)

FetchSpec == Init /\ [][FetchNext]_vars

\* The close() a closeBrowser call awaits resolves in the end, and the event
\* loop then runs the rest of that call.
FairSpec == Spec /\ \A k \in Closers : WF_vars(CloseResolved(k))

\* ==================================================================== claims

\* The calls of getBrowser that found no tracked browser before any launch had
\* resolved: each of them called puppeteer.launch().
FirstCalls ==
    Cardinality({c \in Callers : gpc[c] = "launching" /\ why[c] = "first"})
        + Cardinality(firstHandles)

\* C1: the calls of getBrowser that start with no tracked browser before the
\* first launch resolves invoke puppeteer.launch() once between them, and all
\* return the same handle.
C1_OneLaunchSameHandle ==
    /\ FirstCalls <= 1
    /\ Cardinality(firstHandles) <= 1

\* C2: at most one launched browser process is alive, and a live process is
\* the one browserInstance refers to.
C2_OneLiveTrackedBrowser ==
    /\ Cardinality(LiveBrowsers) <= 1
    /\ \A b \in LiveBrowsers : browserInstance = b

InactivityClosers == {k \in Closers : closer[k].reason = "inactivity"}

\* C5: when the idle timer fires on a Ready session, one closeBrowser('inactivity')
\* starts; it ends with no tracked browser and the process closed, and it emits
\* one 'closed' event, which no other handler emits. Unless getBrowser hands the
\* browser out again while it is closing, no second closeBrowser('inactivity')
\* runs for it.
C5_InactivityTeardown ==
    /\ [](emitted = 1 <=> last = "closed_inactivity")
    /\ [](\A b \in Browsers \ reusedClosing :
              Cardinality({k \in InactivityClosers : closer[k].target = b}) <= 1)
    /\ [][last' = "expire_ready" =>
            Cardinality(InactivityClosers') = Cardinality(InactivityClosers) + 1]_vars
    /\ \A b \in Browsers :
           (last = "expire_ready" /\ browserInstance = b)
               ~> (browserInstance = NULL /\ alive[b] # "alive")
    /\ \A k \in Closers :
           (closer[k].reason = "inactivity")
               ~> (last = "closed_inactivity" /\ emitted = 1)

C5_Witness ==
    /\ last = "closed_inactivity"
    /\ emitted = 1
    /\ Absent
    /\ LiveBrowsers = {}

\* C6: a closeBrowser(reason) that found a browser leaves none tracked and its
\* process closed, and the 'closed' event is emitted exactly for 'inactivity';
\* the 'manual' close of the signal handlers emits none.
C6_CloseEmitsIffInactivity ==
    /\ [](/\ last = "closed_inactivity" => (emitted = 1 /\ browserInstance = NULL)
          /\ last = "closed_manual" => (emitted = 0 /\ browserInstance = NULL)
          /\ last = "close_manual" => emitted = 0)
    /\ [][\A k \in Closers :
              (closer[k].reason # "none" /\ closer'[k].reason = "none")
                  => alive'[closer[k].target] # "alive"]_vars

C6_Witness ==
    /\ last = "closed_manual"
    /\ emitted = 0
    /\ browserInstance = NULL
    /\ LiveBrowsers = {}

\* C7: 'disconnected' from the tracked browser of a Ready session leaves, in
\* that same handler run, no tracked browser and no pending timer, and emits
\* no 'closed' event.
C7_DisconnectWhileReady ==
    last = "disconnected_ready" =>
        /\ browserInstance = NULL
        /\ idleTimeout = NULL
        /\ timers = {}
        /\ emitted = 0

C7_Witness ==
    /\ last = "disconnected_ready"
    /\ \E b \in Browsers : alive[b] = "crashed"
    /\ browserInstance = NULL

\* C8: at most one idle timer is pending.
C8_OnePendingTimer == Cardinality(timers) <= 1

\* A second getBrowser re-armed the timer of a Ready session.
C8_Witness ==
    /\ last = "reuse"
    /\ Cardinality(timers) = 1
    /\ idleTimeout \in timers
    /\ Ready

\* C9: a browser that disconnected on its own is not tracked any more, so the
\* next getBrowser takes the launch path; and a launch that resolves returns a
\* handle to a new, live, tracked browser.
C9_RelaunchAfterCrash ==
    /\ [](browserInstance # NULL => alive[browserInstance] # "crashed")
    /\ [](last \in {"launched", "launched_after_crash", "reuse"} =>
              /\ returned # NULL
              /\ returned = browserInstance
              /\ alive[returned] = "alive")
    /\ [][last' \in {"launched", "launched_after_crash"} =>
              alive[returned'] = "none"]_vars

\* A call that found no browser because the latest one had crashed has returned
\* a new, live one.
C9_Witness ==
    /\ last = "launched_after_crash"
    /\ returned = browserInstance
    /\ alive[returned] = "alive"
    /\ \E b \in Browsers : b < returned /\ alive[b] = "crashed"

\* C3: at every time, at most RATE_LIMIT calls of waitForRateLimit have returned
\* within the trailing RATE_WINDOW_MS, however the callers interleave.
C3_AtMostLimitPerWindow == Len(Trailing(recent, now)) <= RATE_LIMIT

\* C4: a call that finds the window full returns no earlier than
\* oldestTimestamp + RATE_WINDOW_MS, having removed that oldest timestamp, and
\* only that one, and appended its own.
C4_WaitsThenEvictsOldest ==
    [][\A c \in Callers :
          (rpc[c] = "waiting" /\ rpc'[c] = "done")
              => /\ now >= oldest[c] + RATE_WINDOW_MS
                 /\ requestTimestamps # <<>>
                 /\ Head(requestTimestamps) = oldest[c]
                 /\ requestTimestamps' = Append(Tail(requestTimestamps), now)]_vars

\* C10: in a searchPart call the fallback strategy is called only after the
\* primary strategy has returned null; when the primary returns a result the
\* fallback is not called, and the record has the primary's method and URL.
C10_FallbackOnlyAfterPrimaryNull ==
    /\ fallback.res # "notcalled" => primary.res = "null"
    /\ primary.res = "found" =>
           /\ fallback.res = "notcalled"
           /\ result.kind = "part" =>
                  (result.sourceMethod = "ps-search" /\ result.url = primary.url)

C10_Witness ==
    /\ spc = "done"
    /\ primary.res = "found"
    /\ fallback.res = "notcalled"
    /\ result.kind = "part"
    /\ result.sourceMethod = "ps-search"

\* C11: an error raised inside a strategy makes that strategy return null; no
\* strategy throws into searchPart, so the chain goes on after it.
C11_StrategyErrorsIsolated ==
    /\ primary.res # "threw"
    /\ fallback.res # "threw"

\* C12: when a call has returned or thrown, the browsing contexts it created
\* are closed: none is left open.
C12_ContextsClosedOnExit == spc = "done" => open = 0

\* C13: when a navigation is the next step of a strategy or of a fetch (the
\* page.goto of findPartSelectUrlViaSearch and of fetchPageWithPuppeteer, the
\* fetch of findPartSelectUrlViaDDG), that call has completed waitForRateLimit
\* once; no call completes it twice.
C13_OneAdmitBeforeNavigation ==
    /\ spc \in {"ps_goto", "ddg_fetch", "fp_goto"} => cadmits = 1
    /\ cadmits <= 1
    /\ cadmits <= admits

\* The part page is about to be fetched after both strategies have navigated.
C13_Witness ==
    /\ spc = "fp_goto"
    /\ cadmits = 1
    /\ admits = 3
    /\ fallback.res = "found"

\* searchPart has returned, to its caller or to checkCompatibility.
SearchPartReturned == InSearchPart /\ spc \in {"done", "cc_return"}

\* C14: searchPart does not throw: whatever failed, it has returned the part
\* record or an object with an error string.
C14_SearchPartNeverThrows ==
    /\ result.kind # "threw"
    /\ SearchPartReturned =>
           \/ /\ result.kind = "part"
              /\ result.error = <<>>
           \/ /\ result.kind = "error"
              /\ result.error # <<>>

\* The browser could not be acquired for the primary strategy.
C14_Witness ==
    /\ SearchPartReturned
    /\ primary.res = "threw"
    /\ result.kind = "error"

C16_SourceMethodPrimaryOrFallback ==
    result.kind = "part" =>
        /\ result.sourceMethod \in {"primary", "fallback"}
        /\ primary.res = "found" => result.sourceMethod = "primary"
        /\ fallback.res = "found" => result.sourceMethod = "fallback"

\* C16, amended: the record has the part number searchPart was called with and
\* the method and URL of the strategy that resolved it: 'ps-search' for the
\* primary strategy, 'ddg' for the fallback.
C16_SourceMethodOfStrategy ==
    result.kind = "part" =>
        /\ result.partNumber = partNumber
        /\ result.sourceMethod \in {"ps-search", "ddg"}
        /\ primary.res = "found" =>
               (result.sourceMethod = "ps-search" /\ result.url = primary.url)
        /\ primary.res # "found" =>
               /\ fallback.res = "found"
               /\ result.sourceMethod = "ddg"
               /\ result.url = fallback.url

\* The heading of the page the primary strategy landed on has the part number.
C16_Witness ==
    /\ result.kind = "part"
    /\ page # NoPage
    /\ page.h1Hit
    /\ ~page.urlHit
    /\ result.partNumber = partNumber
    /\ result.sourceMethod = "ps-search"
    /\ result.url = "finalUrl"

\* C17: checkCompatibility does not throw. With the model page fetched,
\* isCompatible is whether the lower-cased text has the lower-cased part
\* number, and the message for false says to check the site directly; when a
\* step threw, the result has an error string and a guidance message.
C17_CompatibilityResult ==
    (op = "checkCompatibility" /\ spc = "done") =>
        /\ out.kind \in {"compatibility", "error"}
        /\ out.kind = "compatibility" =>
               /\ InSearchPart
               /\ out.isCompatible <=>
                      \E w \in fetched.text : ToLowerCase(w) = ToLowerCase(partNumber)
               /\ ~out.isCompatible =>
                      out.message = "Could not confirm compatibility between <partNumber> and <modelNumber>. Check PartSelect.com directly."
               /\ out.error = <<>>
        /\ out.kind = "error" =>
               /\ ~InSearchPart
               /\ out.error # <<>>
               /\ out.message = "Unable to verify compatibility. Please check PartSelect.com directly."

\* The part number and the page's word differ in case only.
C17_Witness ==
    /\ op = "checkCompatibility"
    /\ spc = "done"
    /\ partNumber = "ps1"
    /\ fetched.text = {"PS1"}
    /\ out.isCompatible

\* C18: every checkCompatibility call has called searchPart, whether or not
\* the fetch of the model page succeeded, and partInfo is searchPart's record,
\* or null when searchPart returned an error.
C18_SearchPartAlwaysInvoked ==
    (op = "checkCompatibility" /\ spc = "done") =>
        /\ InSearchPart
        /\ out.partInfo = IF result.kind = "part" THEN result ELSE NoResult

\* C19: getTroubleshootingInfo does not throw, and when its fetch of the help
\* page throws, at whichever step, it returns empty tips and suggestedParts and
\* the 'general guidance' message.
C19_TroubleshootingFetchFailure ==
    /\ []((op = "getTroubleshootingInfo" /\ spc = "done") => out.kind = "advice")
    /\ [][(/\ op = "getTroubleshootingInfo"
           /\ spc # "done"
           /\ spc' = "done"
           /\ ~(spc = "fp_close" /\ pend.res = "html" /\ open' < open))
          => /\ out'.tips = "empty"
             /\ out'.suggestedParts = "empty"
             /\ out'.message = "Could not fetch specific troubleshooting data. Will provide general guidance."]_vars

\* The help page was read and had tips, but closing the context threw.
C19_Witness ==
    /\ op = "getTroubleshootingInfo"
    /\ spc = "done"
    /\ fetched.tips = "some"
    /\ out.tips = "empty"
    /\ out.suggestedParts = "empty"
    /\ out.message = "Could not fetch specific troubleshooting data. Will provide general guidance."

\* The elements of list s that are indices of kept elements of the document's
\* list, in increasing order, and the first of them: an element left out comes
\* after all those taken, and only when the list is full.
FirstInOrder(s, kept, cap) ==
    /\ Len(s) <= cap
    /\ \A k \in 1..Len(s) : s[k] \in kept
    /\ \A j, k \in 1..Len(s) : j < k => s[j] < s[k]
    /\ \A i \in kept : (\A k \in 1..Len(s) : s[k] # i) =>
           (Len(s) = cap /\ \A k \in 1..Len(s) : s[k] < i)

\* C20: every field of the record extractPartDetails returns is defined; with
\* nothing matching, the strings are empty, the lists empty and inStock false;
\* the description is cut at its cap and the lists of steps, videos and
\* symptoms hold the first elements in document order, up to their caps.
C20_ExtractDefinedAndCapped ==
    details # NoDetails =>
        /\ details.title # "undefined"
        /\ details.price # "undefined"
        /\ details.imageUrl # "undefined"
        /\ details.compatibilityNote # "undefined"
        /\ details.partNumber \in PartNumbers
        /\ details.description \in 0..DescriptionCap
        /\ details.inStock \in BOOLEAN
        /\ doc = EmptyDoc =>
               /\ details.title = ""
               /\ details.price = ""
               /\ details.description = 0
               /\ details.imageUrl = ""
               /\ details.compatibilityNote = ""
               /\ details.installationSteps = <<>>
               /\ details.videos = <<>>
               /\ details.symptoms = <<>>
               /\ details.inStock = FALSE
        /\ FirstInOrder(details.installationSteps,
                        {i \in DOMAIN doc.steps : doc.steps[i] # ""}, StepsCap)
        /\ FirstInOrder(details.videos,
                        {i \in DOMAIN doc.hrefs : doc.hrefs[i] \notin {"undefined", ""}},
                        VideosCap)
        /\ FirstInOrder(details.symptoms, DOMAIN doc.symptoms, SymptomsCap)

\* A page with more steps than the cap, the first of them empty.
C20_Witness ==
    /\ details # NoDetails
    /\ Len(doc.steps) > StepsCap
    /\ doc.steps[1] = ""
    /\ Len(details.installationSteps) = StepsCap
    /\ details.installationSteps[1] = 2

\* C21: the handle getBrowser returns is that of a live browser whose close()
\* no closeBrowser call is awaiting.
C21_ReturnsReadyBrowser ==
    returned # NULL => (alive[returned] = "alive" /\ ~Closing(returned))

\* C22: an idle timer is pending only while a live browser is tracked that is
\* not being closed.
C22_TimerOnlyWhileReady == timers # {} => Ready

\* C23: a getBrowser call that returns a handle has armed a new timer, which is
\* then the only one pending; a timer is armed by nothing else, so the timer
\* that fires is the one the latest such call armed, due IDLE_TIMEOUT_MS after
\* it.
C23_AcquireResetsDeadline ==
    /\ [](timers \subseteq {idleTimeout})
    /\ [](last \in {"reuse", "launched", "launched_after_crash"} =>
              (returned # NULL /\ idleTimeout # NULL /\ timers = {idleTimeout}))
    /\ [][last' \in {"reuse", "launched", "launched_after_crash"} =>
              (idleTimeout' \notin timers /\ idleTimeout' # idleTimeout)]_vars
    /\ [][timers' \ timers # {} =>
              last' \in {"reuse", "launched", "launched_after_crash"}]_vars
    /\ [][last' \in {"expire", "expire_ready"} => timers \ timers' = {idleTimeout}]_vars

\* A getBrowser call has replaced the pending timer of a Ready session.
C23_Witness ==
    /\ last = "reuse"
    /\ Ready
    /\ idleTimeout > 1
    /\ timers = {idleTimeout}

\* C28: when a browser other than the tracked one disconnects, the tracked
\* browser stays tracked and its idle timer pending.
C28_StaleDisconnectIgnored ==
    [][\A b \in Browsers :
          (/\ alive[b] = "alive"
           /\ alive'[b] = "crashed"
           /\ browserInstance # NULL
           /\ browserInstance # b)
              => /\ browserInstance' = browserInstance
                 /\ idleTimeout' = idleTimeout
                 /\ timers' = timers]_vars

\* C24: when the title of the page the primary strategy landed on signals an
\* error, the strategy returns null, whatever the landed URL, the heading and
\* the links have.
C24_TitleErrorReturnsNull ==
    (spc = "ps_close" /\ page # NoPage /\ page.titleErr) => pend = Null

\* C25: the fallback strategy returns null for the HTML it parsed only when
\* none of its three steps matches: a uddg= value that cannot be decoded, or
\* does not decode to a partselect.com URL, leaves the later steps to decide.
C25_ParseStepsFallThrough ==
    (fallback.res = "null" /\ html # NoPage) =>
        /\ ~(html.enc /\ html.decoded = "site")
        /\ ~html.direct
        /\ ~html.any

\* C26: requestTimestamps never holds more than RATE_LIMIT entries, its entries
\* are in non-decreasing order, and a step changes it only by dropping entries
\* from its front and appending the current time.
C26_WindowBoundedAndOrdered ==
    /\ [](Len(requestTimestamps) <= RATE_LIMIT)
    /\ [](\A i, j \in DOMAIN requestTimestamps :
              i <= j => requestTimestamps[i] <= requestTimestamps[j])
    /\ [][\E k \in 0..Len(requestTimestamps) :
              LET rest == SubSeq(requestTimestamps, k + 1, Len(requestTimestamps))
              IN  requestTimestamps' \in {rest, Append(rest, now)}]_vars

\* Every caller has waited and resumed, each after the others had changed the
\* window, which is full.
C26_Witness ==
    /\ Len(requestTimestamps) = RATE_LIMIT
    /\ \A c \in Callers : rpc[c] = "done" /\ wake[c] = now
    /\ now > 0
    /\ requestTimestamps[1] = now

\* C30: a waitForRateLimit call that suspends is due within RATE_WINDOW_MS,
\* does not suspend again, and returns in the end, having appended the current
\* time to requestTimestamps.
C30_AdmitTerminates ==
    /\ \A c \in Callers : (rpc[c] = "waiting") ~> (rpc[c] = "done")
    /\ [](\A c \in Callers : rpc[c] = "waiting" => wake[c] <= now + RATE_WINDOW_MS)
    /\ [][\A c \in Callers :
              /\ (rpc[c] # "waiting" /\ rpc'[c] = "waiting") =>
                     (wake'[c] > now /\ wake'[c] <= now + RATE_WINDOW_MS)
              /\ rpc[c] = "waiting" => rpc'[c] \in {"waiting", "done"}
              /\ (rpc[c] # rpc'[c] /\ rpc'[c] = "done") =>
                     /\ requestTimestamps' # <<>>
                     /\ requestTimestamps'[Len(requestTimestamps')] = now]_vars

\* A caller that waited has returned at the time it was due.
C30_Witness ==
    /\ \E c \in Callers : rpc[c] = "done" /\ wake[c] = now
    /\ now > 0
    /\ requestTimestamps # <<>>
    /\ requestTimestamps[Len(requestTimestamps)] = now

\* C27: nothing is retried. An exported call makes at most one navigation of
\* the primary strategy, one request of the fallback strategy and one searchPart
\* call; searchPart fetches one page at most, within 3 admissions;
\* checkCompatibility fetches its model page once and then calls searchPart
\* once; getTroubleshootingInfo calls fetchPageWithPuppeteer once and nothing
\* else.
C27_NothingRetried ==
    /\ count.primary <= 1
    /\ count.fallback <= 1
    /\ count.searchPart <= 1
    /\ op = "searchPart" => (count.fetch <= 1 /\ admits <= 3)
    /\ op = "checkCompatibility" =>
           /\ count.fetch <= 2
           /\ admits <= 4
           /\ InSearchPart <=> count.searchPart = 1
           /\ spc = "done" => admits >= 1
           /\ (spc = "done" /\ out.kind = "compatibility") => count.searchPart = 1
    /\ op = "getTroubleshootingInfo" =>
           /\ count.primary = 0
           /\ count.fallback = 0
           /\ count.searchPart = 0
           /\ count.fetch <= 1
           /\ spc = "done" => admits = 1

\* A checkCompatibility whose searchPart went through both strategies.
C27_Witness ==
    /\ op = "checkCompatibility"
    /\ spc = "done"
    /\ admits = 4
    /\ count = [primary |-> 1, fallback |-> 1, fetch |-> 2, searchPart |-> 1]

\* C29: no closeBrowser('inactivity') is closing a browser on which a fetch has
\* its browsing context open.
C29_NoTeardownDuringFetch ==
    \A k \in Closers :
        closer[k].reason = "inactivity" =>
            \A c \in Callers : ctx[c] # closer[k].target

====
